---- MODULE Spec2Model ----
(***************************************************************************)
(* Model of riscv::tagged_tlb (src/src/emu/riscv-tlb.h): a direct-mapped,  *)
(* protection-domain and address-space tagged TLB.                         *)
(*                                                                         *)
(*     tlb[PDID:ASID:VPN] = PPN:PTE.bits:PMA                               *)
(*                                                                         *)
(* The template tagged_tlb<tlb_size, PARAM> is instantiated here with a    *)
(* PARAM that passes the static_assert of tagged_tlb_entry (asid_bits +    *)
(* ppn_bits is 32): asid_bits 10, ppn_bits 22, a page_shift of 12 and two  *)
(* entries.  UX is uint32_t, XLEN = 32 bits wide; vpn_bits and pte_bits    *)
(* are derived from XLEN and page_shift as in the enum.  An address (the   *)
(* argument va) ranges over all of UX and is held as its two halves of 16  *)
(* bits, [hi, lo] for the value hi * 2^16 + lo, because the integers of    *)
(* the model checker end at 2^31 - 1; every other UX value of the model    *)
(* (pdid, asid, pteb, ppn and va >> page_shift) is below 2^31 and is held  *)
(* as an integer.  pdid_t is declared outside this file; it is taken to    *)
(* be an unsigned type of pdid_bits bits, narrower than UX.  The           *)
(* operations are called with the values at both ends of each field and    *)
(* past its limit, and with the first and the last address of the first    *)
(* and the last pages of every slot.                                       *)
(***************************************************************************)
EXTENDS Integers, FiniteSets

(***************************************************************************)
(* Template parameters and the enum constants derived from them.           *)
(***************************************************************************)

\* width in bits of PARAM::UX, the address type: sizeof(UX) << 3
XLEN == 32

\* width in bits of each half of an address
half_bits == XLEN \div 2

\* width of the page offset
page_shift == 12

\* PARAM::asid_bits
asid_bits == 10

\* PARAM::ppn_bits
ppn_bits == 22

\* width in bits of pdid_t, the type of the pdid member
pdid_bits == 1

\* template parameter tlb_size
tlb_size == 2

\* number of values past a field's limit that the operations are driven with
Excess == 1

\* static_assert(asid_bits + ppn_bits == 32 || ... == 64 || ... == 128)
entry_static_assert(ab, pb) == ab + pb \in {32, 64, 128}

vpn_bits == XLEN - page_shift

pte_bits == page_shift

ppn_limit == 2^ppn_bits - 1

asid_limit == 2^asid_bits - 1

vpn_limit == 2^vpn_bits - 1

\* conversion of a UX value to pdid_t on initialisation of the pdid member
to_pdid_t(x) == x % 2^pdid_bits

\* a store that clamps to the largest value of the field
bitfield_saturating(x, bits) == IF x > 2^bits - 1 THEN 2^bits - 1 ELSE x

\* store of a UX value into a bit-field of the given width
bitfield(x, bits) == x % 2^bits

RECURSIVE ctz_pow2(_)
\* count of trailing zero bits of a power of two
ctz_pow2(n) == IF n <= 1 THEN 0 ELSE 1 + ctz_pow2(n \div 2)

RECURSIVE ispow2(_)
\* static_assert(ispow2(tlb_size))
ispow2(n) == IF n = 1 THEN TRUE ELSE IF n < 1 \/ n % 2 = 1 THEN FALSE ELSE ispow2(n \div 2)

size == tlb_size

shift == ctz_pow2(size)

\* an enum whose mask is the size itself
mask_of_no_decrement(n) == 2^ctz_pow2(n)

\* the enum as the template computes it for a tlb_size of n:
\* shift = ctz_pow2(size), mask = (1ULL << shift) - 1
mask_of(n) == 2^ctz_pow2(n) - 1

mask == mask_of(size)

\* the null pointer returned by lookup on a miss; a hit returns the index i of tlb + i
nullptr == -1

\* values of the address type UX, as the halves of hi * 2^half_bits + lo
UX == [hi : 0 .. 2^half_bits - 1, lo : 0 .. 2^half_bits - 1]

\* x >> n on UX, for 0 < n: the low half moves down n bits and the high
\* half comes in above it
shr(x, n) ==
    IF n >= half_bits
    THEN x.hi \div 2^(n - half_bits)
    ELSE x.hi * 2^(half_bits - n) + x.lo \div 2^n

RECURSIVE bitand(_, _)
\* x & y on UX
bitand(x, y) ==
    IF x = 0 \/ y = 0 THEN 0
    ELSE (x % 2) * (y % 2) + 2 * bitand(x \div 2, y \div 2)

(***************************************************************************)
(* tagged_tlb_entry                                                        *)
(***************************************************************************)

\* tagged_tlb_entry(): the entry of a flushed slot
tlb_entry_default ==
    [ppn |-> ppn_limit, asid |-> asid_limit, vpn |-> vpn_limit,
     pteb |-> 0, pdid |-> 0, pma |-> 0]

\* the constructor with the initialisers of ppn and pteb exchanged
tlb_entry_t_swapped(pdid, asid, vpn, pteb, ppn) ==
    [ppn |-> bitfield(pteb, ppn_bits), asid |-> bitfield(asid, asid_bits),
     vpn |-> bitfield(vpn, vpn_bits), pteb |-> bitfield(ppn, pte_bits),
     pdid |-> to_pdid_t(pdid), pma |-> 0]

\* tagged_tlb_entry(UX pdid, UX asid, UX vpn, UX pteb, UX ppn)
tlb_entry_t(pdid, asid, vpn, pteb, ppn) ==
    [ppn |-> bitfield(ppn, ppn_bits), asid |-> bitfield(asid, asid_bits),
     vpn |-> bitfield(vpn, vpn_bits), pteb |-> bitfield(pteb, pte_bits),
     pdid |-> to_pdid_t(pdid), pma |-> 0]

(***************************************************************************)
(* tagged_tlb: the operations as functions of the array tlb[size]          *)
(***************************************************************************)

\* flush() with a loop that stops one entry short
flush_skip_last(t) ==
    [i \in 0 .. size - 1 |-> IF i < size - 1 THEN tlb_entry_default ELSE t[i]]

\* void flush()
flush(t) == [i \in 0 .. size - 1 |-> tlb_entry_default]

\* flush(asid) with the test inverted: it resets the entries of the other asids
flush_asid_inverted(t, asid) ==
    [i \in 0 .. size - 1 |-> IF t[i].asid = asid THEN t[i] ELSE tlb_entry_default]

\* flush(asid) that resets the entries of the asid in protection domain 0 only
flush_asid_pdid0(t, asid) ==
    [i \in 0 .. size - 1 |->
        IF t[i].asid = asid /\ t[i].pdid = 0 THEN tlb_entry_default ELSE t[i]]

\* flush(asid) without the comparison: it resets the entries of every asid
flush_asid_any(t, asid) ==
    [i \in 0 .. size - 1 |-> tlb_entry_default]

\* void flush(UX asid)
flush_asid(t, asid) ==
    [i \in 0 .. size - 1 |-> IF t[i].asid # asid THEN t[i] ELSE tlb_entry_default]

\* lookup that compares the stored vpn with the address shifted one bit
\* short of its page number
lookup_tag_from_va(t, pdid, asid, va) ==
    LET vpn == shr(va, page_shift)
        i == bitand(vpn, mask)
    IN  IF t[i].pdid = pdid /\ t[i].asid = asid /\ t[i].vpn = shr(va, page_shift - 1)
        THEN i ELSE nullptr

\* lookup without the comparison of the address space
lookup_no_asid(t, pdid, asid, va) ==
    LET vpn == shr(va, page_shift)
        i == bitand(vpn, mask)
    IN  IF t[i].pdid = pdid /\ t[i].vpn = vpn
        THEN i ELSE nullptr

\* lookup without the comparison of the protection domain
lookup_no_pdid(t, pdid, asid, va) ==
    LET vpn == shr(va, page_shift)
        i == bitand(vpn, mask)
    IN  IF t[i].asid = asid /\ t[i].vpn = vpn
        THEN i ELSE nullptr

\* tlb_entry_t* lookup(UX pdid, UX asid, UX va): the index of the entry, or nullptr
lookup(t, pdid, asid, va) ==
    LET vpn == shr(va, page_shift)
        i == bitand(vpn, mask)
    IN  IF t[i].pdid = pdid /\ t[i].asid = asid /\ t[i].vpn = vpn
        THEN i ELSE nullptr

\* insert that leaves an occupied slot as it is
insert_no_evict(t, pdid, asid, va, pteb, ppn) ==
    LET vpn == shr(va, page_shift)
        i == bitand(vpn, mask)
    IN  IF t[i] = tlb_entry_default
        THEN [t EXCEPT ![i] = tlb_entry_t(pdid, asid, vpn, pteb, ppn)]
        ELSE t

\* insert that indexes with the virtual address instead of the page number
insert_index_from_va(t, pdid, asid, va, pteb, ppn) ==
    LET vpn == shr(va, page_shift)
        i == bitand(va.lo, mask)
    IN  [t EXCEPT ![i] = tlb_entry_t(pdid, asid, vpn, pteb, ppn)]

\* insert that updates the entry in place and leaves its pdid
insert_partial(t, pdid, asid, va, pteb, ppn) ==
    LET vpn == shr(va, page_shift)
        i == bitand(vpn, mask)
        e == tlb_entry_t(pdid, asid, vpn, pteb, ppn)
    IN  [t EXCEPT ![i].ppn = e.ppn, ![i].asid = e.asid,
                  ![i].vpn = e.vpn, ![i].pteb = e.pteb]

\* void insert(UX pdid, UX asid, UX va, UX pteb, UX ppn)
insert(t, pdid, asid, va, pteb, ppn) ==
    LET vpn == shr(va, page_shift)
        i == bitand(vpn, mask)
    IN  [t EXCEPT ![i] = tlb_entry_t(pdid, asid, vpn, pteb, ppn)]

(***************************************************************************)
(* The state machine: one tagged_tlb object driven by its owner.           *)
(*   tlb      : the array tlb[size]                                        *)
(*   op       : the member function that ran last                          *)
(*   ret      : what the last lookup returned (an index i for tlb + i)     *)
(*   cap      : the tlb_size the template is instantiated with             *)
(* and observers of the run, which no operation reads:                     *)
(*   inserted : the indices insert has written since the slot was last     *)
(*              reset (by construction, flush() or flush(asid))            *)
(*   changed  : the indices whose entry the last operation changed         *)
(*   prior    : how the entry the last insert overwrote compared, as       *)
(*              lookup compares, with the key of that insert ("none" when  *)
(*              the slot held no inserted entry); after flush(asid),       *)
(*              "domains" when the entries it reset were of more than one  *)
(*              protection domain                                          *)
(*   ref      : the reference map of the inserts made, kept beside the     *)
(*              cache by the specification SpecRef only                    *)
(***************************************************************************)
VARIABLES tlb, op, ret, cap, inserted, changed, prior, ref

vars == <<tlb, op, ret, cap, inserted, changed, prior, ref>>

\* argument values the operations are driven with: the least and the
\* greatest value a field can hold and Excess values past its limit
Ends(limit) == {0, limit} \cup (limit + 1 .. limit + Excess)

PdidVals == Ends(2^pdid_bits - 1)

AsidVals == Ends(asid_limit)

PtebVals == Ends(2^pte_bits - 1)

PpnVals == Ends(ppn_limit)

\* the pages addressed: the first and the last page of every slot
PageNums == (0 .. size - 1) \cup {vpn_limit - p : p \in 0 .. size - 1}

\* the offsets addressed in a page: its first and its last address
Offsets == {0, 2^page_shift - 1}

\* the address of offset o in page p: (p << page_shift) | o
Address(p, o) ==
    [hi |-> p \div 2^(half_bits - page_shift),
     lo |-> (p % 2^(half_bits - page_shift)) * 2^page_shift + o]

\* the number of the page of an address: va div 2^page_shift
Page(va) == va.hi * 2^(half_bits - page_shift) + va.lo \div 2^page_shift

VaVals == {Address(p, o) : p \in PageNums, o \in Offsets}

\* the addresses Spec calls lookup and insert with: the first address of
\* each of these pages.  The operations use va only in va >> page_shift, so
\* the states reached are those reached with all of VaVals (SpecCore calls
\* them with all of VaVals, and the properties quantify over all of it).
PageVas == {va \in VaVals : va.lo % 2^page_shift = 0}

\* the indices at which two arrays differ
Diff(t, u) == {i \in 0 .. size - 1 : t[i] # u[i]}

\* the entry at the slot of va against the key (pdid, asid, va), compared as
\* lookup compares: "same" when lookup hits, "alias" when only the page
\* differs, "context" when the page is the same and the entry written for the
\* key carries another pdid or asid
Prior(t, pdid, asid, va) ==
    LET vpn == shr(va, page_shift)
        e == t[bitand(vpn, mask)]
        n == tlb_entry_t(pdid, asid, vpn, 0, 0)
    IN  IF e.pdid = pdid /\ e.asid = asid
        THEN (IF e.vpn = vpn THEN "same" ELSE "alias")
        ELSE (IF e.vpn = vpn /\ (n.pdid # e.pdid \/ n.asid # e.asid)
              THEN "context" ELSE "other")

\* the entries flush(asid) resets are of more than one protection domain
Domains(t, asid) ==
    IF \E i, j \in 0 .. size - 1 :
           t[i].asid = asid /\ t[j].asid = asid /\ t[i].pdid # t[j].pdid
    THEN "domains" ELSE "none"

\* the reference map with no key
NoRef == {}

\* tagged_tlb() { flush(); }
Init ==
    /\ entry_static_assert(asid_bits, ppn_bits)
    /\ ispow2(tlb_size)
    /\ tlb = flush([i \in 0 .. size - 1 |-> tlb_entry_default])
    /\ op = "construct"
    /\ ret = nullptr
    /\ cap = tlb_size
    /\ inserted = {}
    /\ changed = {}
    /\ prior = "none"
    /\ ref = NoRef

Flush ==
    /\ tlb' = flush(tlb)
    /\ op' = "flush"
    /\ ret' = nullptr
    /\ inserted' = {}
    /\ changed' = Diff(tlb, tlb')
    /\ prior' = "none"
    /\ UNCHANGED <<cap, ref>>

FlushAsid ==
    \E asid \in AsidVals :
        /\ tlb' = flush_asid(tlb, asid)
        /\ op' = "flush_asid"
        /\ ret' = nullptr
        /\ changed' = Diff(tlb, tlb')
        /\ inserted' = inserted \ {i \in 0 .. size - 1 : tlb[i].asid = asid}
        /\ prior' = Domains(tlb, asid)
        /\ UNCHANGED <<cap, ref>>

Lookup ==
    \E pdid \in PdidVals, asid \in AsidVals, va \in PageVas :
        /\ ret' = lookup(tlb, pdid, asid, va)
        /\ tlb' = tlb
        /\ op' = "lookup"
        /\ changed' = Diff(tlb, tlb')
        /\ prior' = "none"
        /\ UNCHANGED <<inserted, cap, ref>>

Insert ==
    \E pdid \in PdidVals, asid \in AsidVals, va \in PageVas,
       pteb \in PtebVals, ppn \in PpnVals :
        /\ tlb' = insert(tlb, pdid, asid, va, pteb, ppn)
        /\ op' = "insert"
        /\ ret' = nullptr
        /\ inserted' = inserted \cup {bitand(shr(va, page_shift), mask)}
        /\ changed' = Diff(tlb, tlb')
        /\ prior' = IF bitand(shr(va, page_shift), mask) \in inserted
                    THEN Prior(tlb, pdid, asid, va) ELSE "none"
        /\ UNCHANGED <<cap, ref>>

Next == Flush \/ FlushAsid \/ Lookup \/ Insert

Spec == Init /\ [][Next]_vars

(***************************************************************************)
(* Vocabulary of the properties                                            *)
(***************************************************************************)

\* the slot a virtual address maps to
Index(va) == bitand(shr(va, page_shift), mask)

\* lookup(pdid, asid, va) returns an entry
Hit(t, pdid, asid, va) == lookup(t, pdid, asid, va) # nullptr

\* the value fits a field of the given width
Fits(x, bits) == x < 2^bits

\* pdid, asid, pteb and ppn all fit the fields they are stored in
InRange(pdid, asid, pteb, ppn) ==
    /\ Fits(pdid, pdid_bits)
    /\ Fits(asid, asid_bits)
    /\ Fits(pteb, pte_bits)
    /\ Fits(ppn, ppn_bits)

\* the slot of va holds an entry as insert(pdid, asid, va, _, _) writes it
Holds(t, pdid, asid, va) ==
    \E pteb \in PtebVals, ppn \in PpnVals :
        t[Index(va)] = tlb_entry_t(pdid, asid, shr(va, page_shift), pteb, ppn)

\* va1 and va2 are on different pages that share a slot
Alias(va1, va2) ==
    /\ shr(va1, page_shift) # shr(va2, page_shift)
    /\ Index(va1) = Index(va2)

(***************************************************************************)
(* C1 as stated: for every value of the address type given as pdid, asid,  *)
(* va, pteb and ppn, in every state, lookup(pdid, asid, va) right after    *)
(* insert(pdid, asid, va, pteb, ppn) hits and returns ppn and pteb.        *)
(* Fails: a value wider than its field is stored truncated.                *)
(***************************************************************************)
C1_RoundTripAnyValue ==
    \A pdid \in PdidVals, asid \in AsidVals, va \in VaVals,
       pteb \in PtebVals, ppn \in PpnVals :
        LET t == insert(tlb, pdid, asid, va, pteb, ppn)
            r == lookup(t, pdid, asid, va)
        IN  /\ r # nullptr
            /\ t[r].ppn = ppn
            /\ t[r].pteb = pteb

(***************************************************************************)
(* C1 amended: the round trip holds for every va and for every pdid, asid, *)
(* pteb and ppn that fit the width of the field they are stored in.        *)
(***************************************************************************)
C1_RoundTripInRange ==
    \A pdid \in PdidVals, asid \in AsidVals, va \in VaVals,
       pteb \in PtebVals, ppn \in PpnVals :
        InRange(pdid, asid, pteb, ppn) =>
            LET t == insert(tlb, pdid, asid, va, pteb, ppn)
                r == lookup(t, pdid, asid, va)
            IN  /\ r # nullptr
                /\ t[r].ppn = ppn
                /\ t[r].pteb = pteb

\* an insert has just replaced an entry, and a lookup of a key that fits its
\* fields finds an entry carrying page table entry bits and a ppn below the limit
C1_Witness ==
    /\ op = "insert"
    /\ changed # {}
    /\ \E pdid \in PdidVals, asid \in AsidVals, va \in VaVals :
        /\ Index(va) \in changed
        /\ Hit(tlb, pdid, asid, va)
        /\ tlb[Index(va)].pteb # 0
        /\ tlb[Index(va)].ppn # ppn_limit

(***************************************************************************)
(* C2: in every reachable state and for every key, lookup returns the      *)
(* entry at index (va >> page_shift) & mask exactly when its stored pdid,  *)
(* asid and vpn equal pdid, asid and va >> page_shift; otherwise it        *)
(* returns no entry. It returns no other index.                            *)
(***************************************************************************)
C2_LookupHitIffTagsMatch ==
    /\ \A pdid \in PdidVals, asid \in AsidVals, va \in VaVals :
        LET vpn == Page(va)
            i == vpn % size
            r == lookup(tlb, pdid, asid, va)
        IN  /\ r \in {i, nullptr}
            /\ r = i <=> (tlb[i].pdid = pdid /\ tlb[i].asid = asid /\ tlb[i].vpn = vpn)
    /\ op = "lookup" => ret \in (0 .. size - 1) \cup {nullptr}

\* a lookup has just returned an inserted entry, and another key misses
C2_Witness ==
    /\ op = "lookup"
    /\ ret # nullptr
    /\ ret \in inserted
    /\ \E pdid \in PdidVals, asid \in AsidVals, va \in VaVals :
        Index(va) = ret /\ ~Hit(tlb, pdid, asid, va)

(***************************************************************************)
(* C3 as stated: once insert has put the entry for va1 in its slot, an     *)
(* insert for va2 (another page of the same slot, same pdid and asid)      *)
(* makes lookup of va1 miss and lookup of va2 hit with the ppn and pteb    *)
(* given for va2. Fails in its second half for values wider than a field.  *)
(***************************************************************************)
C3_EvictionAnyValue ==
    \A pdid \in PdidVals, asid \in AsidVals, va1 \in VaVals :
        (Index(va1) \in inserted /\ Holds(tlb, pdid, asid, va1)) =>
            \A va2 \in VaVals :
                Alias(va1, va2) =>
                    \A pteb \in PtebVals, ppn \in PpnVals :
                        LET t == insert(tlb, pdid, asid, va2, pteb, ppn)
                            r == lookup(t, pdid, asid, va2)
                        IN  /\ ~Hit(t, pdid, asid, va1)
                            /\ r # nullptr
                            /\ t[r].ppn = ppn
                            /\ t[r].pteb = pteb

(***************************************************************************)
(* C3 amended: the insert for va2 makes lookup of va1 miss for all values; *)
(* lookup of va2 hits with the ppn and pteb given for va2 when pdid, asid, *)
(* pteb and ppn fit their fields.                                          *)
(***************************************************************************)
C3_EvictionInRange ==
    \A pdid \in PdidVals, asid \in AsidVals, va1 \in VaVals :
        (Index(va1) \in inserted /\ Holds(tlb, pdid, asid, va1)) =>
            \A va2 \in VaVals :
                Alias(va1, va2) =>
                    \A pteb \in PtebVals, ppn \in PpnVals :
                        LET t == insert(tlb, pdid, asid, va2, pteb, ppn)
                            r == lookup(t, pdid, asid, va2)
                        IN  /\ ~Hit(t, pdid, asid, va1)
                            /\ InRange(pdid, asid, pteb, ppn) =>
                                /\ r # nullptr
                                /\ t[r].ppn = ppn
                                /\ t[r].pteb = pteb

\* an insert has just overwritten an inserted entry of the same pdid and asid
\* and another page; the other slot still holds its inserted entry
C3_Witness ==
    /\ op = "insert"
    /\ prior = "alias"
    /\ Cardinality(changed) = 1
    /\ inserted = 0 .. size - 1
    /\ \E pdid \in PdidVals, asid \in AsidVals, va \in VaVals :
        Index(va) \in changed /\ Hit(tlb, pdid, asid, va)

(***************************************************************************)
(* C4 (stated as written): every lookup that hits in a state misses after  *)
(* flush() has run from that state.                                        *)
(* Fails: lookup(0, asid_limit, va) with va >> page_shift = vpn_limit      *)
(* matches the entry flush() writes into the last slot.                    *)
(***************************************************************************)
C4_FlushMissesEveryPriorHit ==
    \A pdid \in PdidVals, asid \in AsidVals, va \in VaVals :
        Hit(tlb, pdid, asid, va) => ~Hit(flush(tlb), pdid, asid, va)

(***************************************************************************)
(* C5 (stated as written): for every asid_x, pdid and va,                  *)
(* lookup(pdid, asid_x, va) misses in the state right after                *)
(* flush(asid_x), the maximum address-space id included.                   *)
(* Fails for asid_x = asid_limit: the entries it resets carry asid_limit.  *)
(***************************************************************************)
C5_FlushAsidMissesThatAsid ==
    \A asid_x \in AsidVals, pdid \in PdidVals, va \in VaVals :
        ~Hit(flush_asid(tlb, asid_x), pdid, asid_x, va)

(***************************************************************************)
(* C6: flush(asid) resets the entries whose stored asid equals asid and    *)
(* leaves every other entry unchanged in all fields; every lookup with a   *)
(* different asid that hit before still hits and returns the same ppn and  *)
(* pteb.                                                                   *)
(***************************************************************************)
C6_FlushAsidFrame ==
    \A asid \in AsidVals :
        LET t == flush_asid(tlb, asid)
        IN  /\ \A i \in 0 .. size - 1 :
                t[i] = IF tlb[i].asid = asid
                       THEN [ppn |-> 2^ppn_bits - 1, asid |-> 2^asid_bits - 1,
                             vpn |-> 2^vpn_bits - 1, pteb |-> 0, pdid |-> 0, pma |-> 0]
                       ELSE tlb[i]
            /\ \A pdid \in PdidVals, other \in AsidVals \ {asid}, va \in VaVals :
                Hit(tlb, pdid, other, va) =>
                    LET r == lookup(t, pdid, other, va)
                    IN  /\ r = lookup(tlb, pdid, other, va)
                        /\ t[r].ppn = tlb[r].ppn
                        /\ t[r].pteb = tlb[r].pteb

\* flush(asid) has just reset an inserted entry and left the inserted entry
\* of another address space in place, where a lookup still hits it
C6_Witness ==
    /\ op = "flush_asid"
    /\ Cardinality(changed) = 1
    /\ \E i \in inserted, pdid \in PdidVals, asid \in AsidVals, va \in VaVals :
        /\ i \notin changed
        /\ Index(va) = i
        /\ asid # asid_limit
        /\ Hit(tlb, pdid, asid, va)

(***************************************************************************)
(* C7 (stated as written): lookup misses for every pdid, asid and va       *)
(* whose slot no insert has written since the slot was last reset; the     *)
(* entry of a reset slot is never returned as a hit.                       *)
(* Fails for pdid = 0, asid = asid_limit and va >> page_shift = vpn_limit, *)
(* which index the last slot.                                              *)
(***************************************************************************)
C7_NeverInsertedMisses ==
    \A pdid \in PdidVals, asid \in AsidVals, va \in VaVals :
        Index(va) \notin inserted => ~Hit(tlb, pdid, asid, va)

(***************************************************************************)
(* C8: in every reachable state every entry at index i other than the      *)
(* entry of a reset slot has (vpn & mask) = i, and the vpn an insert       *)
(* stores is va >> page_shift with no bit lost to the width of the field.  *)
(***************************************************************************)
C8_DirectMappedPlacement ==
    /\ \A i \in 0 .. size - 1 :
        tlb[i] # tlb_entry_default => tlb[i].vpn % size = i
    /\ \A pdid \in PdidVals, asid \in AsidVals, va \in VaVals,
          pteb \in PtebVals, ppn \in PpnVals :
        LET t == insert(tlb, pdid, asid, va, pteb, ppn)
            vpn == Page(va)
        IN  /\ t[vpn % size].vpn = vpn
            /\ t[vpn % size] # tlb_entry_default => t[vpn % size].vpn % size = vpn % size

\* every slot holds an inserted entry, one of them with a vpn above the mask
C8_Witness ==
    /\ op = "insert"
    /\ inserted = 0 .. size - 1
    /\ \A i \in 0 .. size - 1 : tlb[i] # tlb_entry_default
    /\ \E i \in 0 .. size - 1 : tlb[i].vpn > mask

(***************************************************************************)
(* C9: a newly constructed cache and a cache right after flush() hold, in  *)
(* every one of the size entries, ppn, asid and vpn at the all-ones        *)
(* maximum of their widths and pteb = 0, pdid = 0, pma = 0; flush() from   *)
(* any state yields the state construction yields.                         *)
(***************************************************************************)
C9_ConstructedAndFlushedAreSentinel ==
    LET sentinel == [ppn |-> 2^ppn_bits - 1, asid |-> 2^asid_bits - 1,
                     vpn |-> 2^vpn_bits - 1, pteb |-> 0, pdid |-> 0, pma |-> 0]
    IN  /\ op \in {"construct", "flush"} =>
            /\ DOMAIN tlb = 0 .. size - 1
            /\ \A i \in 0 .. size - 1 : tlb[i] = sentinel
        /\ flush(tlb) = [i \in 0 .. size - 1 |-> sentinel]

\* flush() has just reset a cache in which every slot held an inserted entry
C9_Witness ==
    /\ op = "flush"
    /\ changed = 0 .. size - 1

(***************************************************************************)
(* C10: insert(pdid, asid, va, pteb, ppn) overwrites the one entry at      *)
(* index (va >> page_shift) & mask with a complete new entry (pdid, asid,  *)
(* vpn, pteb and ppn replaced by the arguments as the fields hold them,    *)
(* pma 0, nothing kept of the previous occupant) and leaves the entry at   *)
(* every other index unchanged.                                            *)
(***************************************************************************)
C10_InsertOverwritesOneEntry ==
    \A pdid \in PdidVals, asid \in AsidVals, va \in VaVals,
       pteb \in PtebVals, ppn \in PpnVals :
        LET t == insert(tlb, pdid, asid, va, pteb, ppn)
            vpn == Page(va)
            i == vpn % size
        IN  /\ DOMAIN t = 0 .. size - 1
            /\ t[i] = [ppn |-> ppn % 2^ppn_bits, asid |-> asid % 2^asid_bits,
                       vpn |-> vpn, pteb |-> pteb % 2^page_shift,
                       pdid |-> pdid % 2^pdid_bits, pma |-> 0]
            /\ \A j \in (0 .. size - 1) \ {i} : t[j] = tlb[j]

\* an insert has just overwritten an inserted entry of another key while the
\* other slot holds an inserted entry of its own
C10_Witness ==
    /\ op = "insert"
    /\ prior \in {"alias", "other"}
    /\ Cardinality(changed) = 1
    /\ inserted = 0 .. size - 1
    /\ \A j \in (0 .. size - 1) \ changed : tlb[j] # tlb_entry_default

(***************************************************************************)
(* The cache alone.  The specification SpecCore runs the four operations   *)
(* with the values Spec runs them with and keeps the cache, the operation  *)
(* made and its result, without the observers.                             *)
(***************************************************************************)

CoreFlush ==
    /\ tlb' = flush(tlb)
    /\ op' = "flush"
    /\ ret' = nullptr
    /\ UNCHANGED <<cap, inserted, changed, prior, ref>>

CoreFlushAsid ==
    \E asid \in AsidVals :
        /\ tlb' = flush_asid(tlb, asid)
        /\ op' = "flush_asid"
        /\ ret' = nullptr
        /\ UNCHANGED <<cap, inserted, changed, prior, ref>>

\* a lookup that marks the entry it returns as accessed
CoreLookup_marks_hit ==
    \E pdid \in PdidVals, asid \in AsidVals, va \in VaVals :
        LET r == lookup(tlb, pdid, asid, va)
        IN  /\ ret' = r
            /\ tlb' = IF r = nullptr THEN tlb ELSE [tlb EXCEPT ![r].pma = 1]
            /\ op' = "lookup"
            /\ UNCHANGED <<cap, inserted, changed, prior, ref>>

CoreLookup ==
    \E pdid \in PdidVals, asid \in AsidVals, va \in VaVals :
        /\ ret' = lookup(tlb, pdid, asid, va)
        /\ tlb' = tlb
        /\ op' = "lookup"
        /\ UNCHANGED <<cap, inserted, changed, prior, ref>>

CoreInsert ==
    \E pdid \in PdidVals, asid \in AsidVals, va \in VaVals,
       pteb \in PtebVals, ppn \in PpnVals :
        /\ tlb' = insert(tlb, pdid, asid, va, pteb, ppn)
        /\ op' = "insert"
        /\ ret' = nullptr
        /\ UNCHANGED <<cap, inserted, changed, prior, ref>>

NextCore == CoreFlush \/ CoreFlushAsid \/ CoreLookup \/ CoreInsert

SpecCore == Init /\ [][NextCore]_vars

(***************************************************************************)
(* C11: lookup never changes the cache: over every step that is a lookup,  *)
(* hit or miss, every entry is the same before and after; the result is    *)
(* either an entry of the cache or the value nullptr, and the same lookup  *)
(* made again on the state it leaves gives the same result.                *)
(***************************************************************************)
C11_LookupLeavesCache ==
    [][op' = "lookup" =>
        /\ tlb' = tlb
        /\ ret' \in (0 .. size - 1) \cup {nullptr}
        /\ \E pdid \in PdidVals, asid \in AsidVals, va \in VaVals :
               /\ ret' = lookup(tlb, pdid, asid, va)
               /\ ret' = lookup(tlb', pdid, asid, va)]_vars

\* a lookup has just missed on a cache whose slots all hold inserted entries
C11_Witness ==
    /\ op = "lookup"
    /\ ret = nullptr
    /\ \A i \in 0 .. size - 1 : tlb[i] # tlb_entry_default

(***************************************************************************)
(* C12: construction of an entry cannot fail and values too wide for a     *)
(* field wrap: every reachable cache is an array of well-formed entries,   *)
(* and after insert with any values the entry at the slot of va has asid   *)
(* mod 2^asid_bits, ppn mod 2^ppn_bits, pteb mod 2^page_shift and pdid     *)
(* reduced to the width of pdid_t; no value given to insert leads to       *)
(* anything but such a cache.                                              *)
(***************************************************************************)
C12_FieldsWrapByTruncation ==
    /\ tlb \in [0 .. size - 1 ->
                  [ppn : 0 .. 2^ppn_bits - 1, asid : 0 .. 2^asid_bits - 1,
                   vpn : 0 .. 2^(XLEN - page_shift) - 1,
                   pteb : 0 .. 2^page_shift - 1,
                   pdid : 0 .. 2^pdid_bits - 1, pma : {0}]]
    /\ \A pdid \in PdidVals, asid \in AsidVals, va \in VaVals,
          pteb \in PtebVals, ppn \in PpnVals :
           insert(tlb, pdid, asid, va, pteb, ppn)
             = [tlb EXCEPT ![Page(va) % size] =
                    [ppn |-> ppn % 2^ppn_bits, asid |-> asid % 2^asid_bits,
                     vpn |-> Page(va), pteb |-> pteb % 2^page_shift,
                     pdid |-> pdid % 2^pdid_bits, pma |-> 0]]

\* an insert has just written an entry that is the one insert writes for
\* values of which none fits its field
C12_Witness ==
    /\ op = "insert"
    /\ \E pdid \in PdidVals, asid \in AsidVals, va \in VaVals,
          pteb \in PtebVals, ppn \in PpnVals :
           /\ ~Fits(pdid, pdid_bits) /\ ~Fits(asid, asid_bits)
           /\ ~Fits(pteb, pte_bits) /\ ~Fits(ppn, ppn_bits)
           /\ tlb[Index(va)] = tlb_entry_t(pdid, asid, shr(va, page_shift), pteb, ppn)

(***************************************************************************)
(* Instantiation of the template for any tlb_size.  The specification      *)
(* SpecCapacity draws a tlb_size, applies the static_assert and the enum   *)
(* of tagged_tlb to it and, for an instance that exists, computes the      *)
(* index of pages as lookup and insert compute it.                         *)
(***************************************************************************)

\* largest tlb_size instantiated
MaxCap == 32

\* the pages indexed in an instance
CapVpns == 0 .. 2 * MaxCap - 1

InitCapacity ==
    /\ cap \in 1 .. MaxCap
    /\ tlb = [i \in {} |-> tlb_entry_default]
    /\ op = "declared"
    /\ ret = nullptr
    /\ inserted = {}
    /\ changed = {}
    /\ prior = "none"
    /\ ref = NoRef

\* tagged_tlb<cap, PARAM> is instantiated: the static_assert rejects it, or
\* the constructor runs flush() over its cap entries
Instantiate ==
    /\ op = "declared"
    /\ IF entry_static_assert(asid_bits, ppn_bits) /\ ispow2(cap)
       THEN /\ op' = "construct"
            /\ tlb' = [i \in 0 .. cap - 1 |-> tlb_entry_default]
       ELSE /\ op' = "rejected"
            /\ tlb' = tlb
    /\ UNCHANGED <<ret, cap, inserted, changed, prior, ref>>

\* size_t i = vpn & mask, in an instance that exists
ComputeIndex ==
    /\ op \in {"construct", "index"}
    /\ \E vpn \in CapVpns :
           ret' = bitand(vpn, mask_of(cap))
    /\ op' = "index"
    /\ UNCHANGED <<tlb, cap, inserted, changed, prior, ref>>

NextCapacity == Instantiate \/ ComputeIndex

SpecCapacity == InitCapacity /\ [][NextCapacity]_vars

\* n is a power of two: it is positive and has no odd divisor but 1
PowerOfTwo(n) == n >= 1 /\ \A d \in 2 .. n : n % d = 0 => d % 2 = 0

(***************************************************************************)
(* C13: the capacity must be a power of two: a tlb_size that is not one is *)
(* rejected and no instance of it ever exists, and for every tlb_size that *)
(* is accepted mask is tlb_size - 1 and every index vpn & mask computed    *)
(* lies in 0 .. tlb_size - 1, the entries of the instance.                 *)
(***************************************************************************)
C13_CapacityPowerOfTwo ==
    /\ op = "rejected" => ~PowerOfTwo(cap) /\ DOMAIN tlb = {}
    /\ op \in {"construct", "index"} =>
           /\ PowerOfTwo(cap)
           /\ mask_of(cap) = cap - 1
           /\ DOMAIN tlb = 0 .. cap - 1
           /\ \A vpn \in CapVpns : bitand(vpn, mask_of(cap)) \in DOMAIN tlb
    /\ op = "index" => ret \in 0 .. cap - 1
    /\ ~PowerOfTwo(cap) => op \in {"declared", "rejected"}

\* an index has been computed in an instance of more than one entry for a
\* page beyond the size, and it is the last entry
C13_Witness ==
    /\ op = "index"
    /\ cap > 1
    /\ ret = cap - 1

\* a tlb_size that is not a power of two has been rejected
C13_Rejected ==
    /\ op = "rejected"
    /\ cap > 1

(***************************************************************************)
(* The cache beside a reference map.  The specification SpecRef runs the   *)
(* four operations on the cache and, with each, the same operation on ref: *)
(* a map from the key (pdid, asid, va >> page_shift) to the pteb and ppn   *)
(* of the most recent insert with that key, emptied by flush() and emptied *)
(* of the keys of an address space by flush(asid).  It is driven with      *)
(* values that fit their fields and with the page-aligned addresses of the *)
(* pages of the last slot, which alias one another.                        *)
(***************************************************************************)

RefPdids == 0 .. 2^pdid_bits - 1

RefAsids == {0, asid_limit}

RefVas == {va \in PageVas : bitand(shr(va, page_shift), mask) = mask}

RefPtebs == {2^pte_bits - 1}

RefPpns == {0, ppn_limit}

\* the reference map after an insert
RefPut(m, pdid, asid, vpn, pteb, ppn) ==
    {r \in m : ~(r.pdid = pdid /\ r.asid = asid /\ r.vpn = vpn)}
        \cup {[pdid |-> pdid, asid |-> asid, vpn |-> vpn, pteb |-> pteb, ppn |-> ppn]}

RefFlush ==
    /\ tlb' = flush(tlb)
    /\ ref' = NoRef
    /\ op' = "flush"
    /\ ret' = nullptr
    /\ UNCHANGED <<cap, inserted, changed, prior>>

RefFlushAsid ==
    \E asid \in RefAsids :
        /\ tlb' = flush_asid(tlb, asid)
        /\ ref' = {r \in ref : r.asid # asid}
        /\ op' = "flush_asid"
        /\ ret' = nullptr
        /\ UNCHANGED <<cap, inserted, changed, prior>>

RefLookup ==
    \E pdid \in RefPdids, asid \in RefAsids, va \in RefVas :
        /\ ret' = lookup(tlb, pdid, asid, va)
        /\ op' = "lookup"
        /\ UNCHANGED <<tlb, ref, cap, inserted, changed, prior>>

RefInsert ==
    \E pdid \in RefPdids, asid \in RefAsids, va \in RefVas,
       pteb \in RefPtebs, ppn \in RefPpns :
        /\ tlb' = insert(tlb, pdid, asid, va, pteb, ppn)
        /\ ref' = RefPut(ref, pdid, asid, shr(va, page_shift), pteb, ppn)
        /\ op' = "insert"
        /\ ret' = nullptr
        /\ UNCHANGED <<cap, inserted, changed, prior>>

NextRef == RefFlush \/ RefFlushAsid \/ RefLookup \/ RefInsert

SpecRef == Init /\ [][NextRef]_vars

(***************************************************************************)
(* C14: every hit returns data of the right key: whenever                  *)
(* lookup(pdid, asid, va) hits, the reference map has the key              *)
(* (pdid, asid, va >> page_shift) and the ppn and pteb of the entry        *)
(* returned are those the map records for it, the values of the most       *)
(* recent insert with exactly that key.                                    *)
(***************************************************************************)
C14_HitsAreOfReferenceMap ==
    \A pdid \in PdidVals, asid \in AsidVals, va \in VaVals :
        LET r == lookup(tlb, pdid, asid, va)
        IN  r # nullptr =>
                \E m \in ref :
                    /\ m.pdid = pdid /\ m.asid = asid
                    /\ m.vpn = Page(va)
                    /\ m.ppn = tlb[r].ppn /\ m.pteb = tlb[r].pteb

(***************************************************************************)
(* C15: a hit persists until it is displaced: in every reachable state, a  *)
(* key that hits keeps hitting, on the same entry with the same ppn and    *)
(* pteb, after flush(asid) for any other asid and after insert of any      *)
(* values, of any protection domain and address space, for a page of       *)
(* another index.  (A lookup step leaves the cache as it is, C11.)  Every  *)
(* sequence of such operations therefore keeps the hit an insert made.     *)
(***************************************************************************)
C15_HitPersists ==
    \A p \in PdidVals, a \in AsidVals, v \in VaVals :
        LET r == lookup(tlb, p, a, v)
        IN  r # nullptr =>
              /\ \A asid \in AsidVals \ {a} :
                     LET t == flush_asid(tlb, asid)
                     IN  lookup(t, p, a, v) = r /\ t[r] = tlb[r]
              /\ \A pdid \in PdidVals, asid \in AsidVals, va \in VaVals,
                    pteb \in PtebVals, ppn \in PpnVals :
                     Page(va) % size # Page(v) % size =>
                         LET t == insert(tlb, pdid, asid, va, pteb, ppn)
                         IN  lookup(t, p, a, v) = r /\ t[r] = tlb[r]

\* a flush(asid) has just left in place the entries of every slot, which
\* are entries that an insert wrote and that their keys hit
C15_Witness ==
    /\ op = "flush_asid"
    /\ \A i \in 0 .. size - 1 :
           /\ tlb[i] # tlb_entry_default
           /\ \E pdid \in PdidVals, asid \in AsidVals, va \in VaVals :
                  lookup(tlb, pdid, asid, va) = i

(***************************************************************************)
(* C16: each index serves at most one key at a time, across protection     *)
(* domains and address spaces too: in every reachable state, of two keys   *)
(* that map to the same index and differ in pdid, asid or virtual page     *)
(* number, at most one hits.  So where one insert is followed by an insert *)
(* of another (pdid, asid) at the same index, the page being the same or   *)
(* not, the key of the first no longer hits when the key of the second     *)
(* does.                                                                   *)
(***************************************************************************)
C16_OneKeyPerIndex ==
    \A pdid1 \in PdidVals, asid1 \in AsidVals, va1 \in VaVals :
        lookup(tlb, pdid1, asid1, va1) # nullptr =>
            \A pdid2 \in PdidVals, asid2 \in AsidVals, va2 \in VaVals :
                (/\ Page(va1) % size = Page(va2) % size
                 /\ \/ pdid1 # pdid2
                    \/ asid1 # asid2
                    \/ Page(va1) # Page(va2))
                    => lookup(tlb, pdid2, asid2, va2) = nullptr

\* an insert has just overwritten the inserted entry of another protection
\* domain or address space for the same page, and its own key hits
C16_Witness ==
    /\ op = "insert"
    /\ prior = "context"
    /\ \E i \in changed :
           /\ tlb[i] # tlb_entry_default
           /\ \E pdid \in PdidVals, asid \in AsidVals, va \in VaVals :
                  lookup(tlb, pdid, asid, va) = i

(***************************************************************************)
(* C17: flush(asid) does not consult the protection-domain id: it resets   *)
(* to the default entry every entry whose stored asid equals asid,         *)
(* whatever its pdid, and the slots it resets are the same whatever pdids  *)
(* the entries carry; so of two entries that hit for keys of the same asid *)
(* and of different protection domains, neither is left in the cache by    *)
(* flush(asid): both their slots hold the default entry.                   *)
(***************************************************************************)
C17_FlushAsidIgnoresPdid ==
    \A asid \in AsidVals :
        LET t == flush_asid(tlb, asid)
        IN  /\ \A i \in 0 .. size - 1 :
                   tlb[i].asid = asid =>
                       t[i] = [ppn |-> 2^ppn_bits - 1, asid |-> 2^asid_bits - 1,
                               vpn |-> 2^(XLEN - page_shift) - 1,
                               pteb |-> 0, pdid |-> 0, pma |-> 0]
            /\ \A p \in 0 .. 2^pdid_bits - 1 :
                   LET u == [i \in 0 .. size - 1 |-> [tlb[i] EXCEPT !.pdid = p]]
                   IN  {i \in 0 .. size - 1 : flush_asid(u, asid)[i] # u[i]}
                         = {i \in 0 .. size - 1 :
                                u[i].asid = asid /\ u[i] # tlb_entry_default}
            /\ \A pdid1 \in PdidVals, va1 \in VaVals :
                   lookup(tlb, pdid1, asid, va1) # nullptr =>
                       \A pdid2 \in PdidVals \ {pdid1}, va2 \in VaVals :
                           lookup(tlb, pdid2, asid, va2) # nullptr =>
                               /\ t[lookup(tlb, pdid1, asid, va1)] = tlb_entry_default
                               /\ t[lookup(tlb, pdid2, asid, va2)] = tlb_entry_default

\* a flush(asid) has just reset every slot, and the inserted entries it reset
\* were of more than one protection domain
C17_Witness ==
    /\ op = "flush_asid"
    /\ prior = "domains"
    /\ changed = 0 .. size - 1
    /\ \A i \in 0 .. size - 1 : tlb[i] = tlb_entry_default

(***************************************************************************)
(* C18: lookup and insert depend on the virtual address only through its   *)
(* virtual page number: for two addresses va and va' of the same page      *)
(* (va >> page_shift = va' >> page_shift), in every reachable state        *)
(* lookup(pdid, asid, va) and lookup(pdid, asid, va') return the same      *)
(* result, and insert with va and insert with va', the other arguments     *)
(* being equal, leave the same cache.                                      *)
(***************************************************************************)
C18_OnlyThePageMatters ==
    \A vpn \in PageNums :
        \A o1 \in Offsets, o2 \in Offsets :
            o1 # o2 =>
                LET va1 == Address(vpn, o1)
                    va2 == Address(vpn, o2)
                IN  \A pdid \in PdidVals, asid \in AsidVals :
                        /\ lookup(tlb, pdid, asid, va1) = lookup(tlb, pdid, asid, va2)
                        /\ \A pteb \in PtebVals, ppn \in PpnVals :
                               insert(tlb, pdid, asid, va1, pteb, ppn)
                                 = insert(tlb, pdid, asid, va2, pteb, ppn)

\* a lookup has just hit an entry of an insert, and the lookups of two
\* different addresses of one page both return that entry
C18_Witness ==
    /\ op = "lookup"
    /\ ret # nullptr
    /\ tlb[ret] # tlb_entry_default
    /\ \E pdid \in PdidVals, asid \in AsidVals, va1 \in VaVals, va2 \in VaVals :
           /\ va1 # va2
           /\ lookup(tlb, pdid, asid, va1) = ret
           /\ lookup(tlb, pdid, asid, va2) = ret

====
